---- MODULE Spec2Model ----
(***************************************************************************)
(* dev-connect: the posts router (src/routes/api/posts.js) and the profile *)
(* router (src/routes/api/profile.js) as state machines over the document  *)
(* store.                                                                  *)
(*                                                                         *)
(* A handler is an async function: it gives the event loop back at every   *)
(* await, and any step of any other request may run before it goes on.     *)
(* Each handler is therefore a chain of steps, one per store operation it  *)
(* awaits.  The synchronous code between two store operations touches only *)
(* the handler's own variables and is part of one of the two steps; the    *)
(* answer that follows the last operation is part of that operation's      *)
(* step.  A request is a record in reqs that carries what the handler      *)
(* holds in its local variables.                                           *)
(*                                                                         *)
(* Clients either send a request only after the previous one was answered  *)
(* (oneAtATime) or send them without waiting.                              *)
(*                                                                         *)
(*   Spec         posts: create / delete / like / unlike, one at a time    *)
(*   SpecComments posts: create / comment / remove comment, one at a time  *)
(*   SpecProfile  profile upsert / add and remove experience, one at a time*)
(*   SpecAccount  profile upsert / create post / delete account, one at a  *)
(*                time                                                     *)
(*   SpecConc     like / unlike / comment on one post, requests not        *)
(*                waiting for each other                                   *)
(*   SpecRemove   comment / remove comment on one post, requests not       *)
(*                waiting                                                  *)
(*   SpecDelete   delete / get / like on one post, requests not waiting    *)
(*   SpecUpsert   profile upsert / create post / delete account, requests  *)
(*                not waiting                                              *)
(*   SpecExperience add and remove experience on one profile, requests not *)
(*                waiting                                                  *)
(*                                                                         *)
(* A post's name and avatar are copies of the author's and no route under  *)
(* src/ changes them, so a post carries its owner and text only.  The      *)
(* read-only list routes (GET api/posts, GET api/profile...) change        *)
(* nothing and are left out.                                               *)
(***************************************************************************)
EXTENDS Integers, Sequences, FiniteSets, TLC

\* ------------------------------------------------------------------ bounds
\* ids the store hands out to posts and to comments (never reused)
MaxPosts == 1
MaxComments == 2
\* ids the store hands out to experience entries
MaxExps == 2
\* Profile documents the store holds at a time when requests come one at a
\* time
MaxProfiles == 1
\* requests that run when clients do not wait; when they wait, one more than
\* the writes not yet landed that the store lets pile up
MaxRequests == 2

\* the authenticated identities (req.user.id of a valid token)
Users == {"A", "B", "C"}

\* request bodies' text: empty (rejected by the validator) or not
Texts == {"", "hello"}

PostIds == 1..MaxPosts
CommentIds == 1..MaxComments
\* an id string that is no ObjectId: findById throws a CastError on it
Malformed == 0 - 1
IsObjectId(id) == id > 0

\* the result of a find that matches nothing
Null == [isNull |-> TRUE]

VARIABLES
  users,         \* ids of the User documents in the store
  posts,         \* Post documents: id -> [user, text, likes, comments]
  nextPostId,    \* the next fresh post id
  nextCommentId, \* the next fresh comment sub-document id
  profiles,      \* Profile documents: a sequence, in insertion order
  nextExpId,     \* the next fresh experience sub-document id
  reqs,          \* the requests: what each handler holds and where it is
  last,          \* the last response sent: [op, status]
  oneAtATime     \* whether clients wait for an answer before the next request

vars == <<users, posts, nextPostId, nextCommentId, profiles, nextExpId, reqs,
          last, oneAtATime>>

\* ------------------------------------------------------- array helpers (JS)
\* Array.prototype.unshift
Unshift(arr, x) == <<x>> \o arr

\* Array.prototype.indexOf over a mapped array: first 1-based position whose
\* key is k, 0 when there is none (JS: 0-based, -1 when there is none)
RECURSIVE IndexFrom(_, _, _)
IndexFrom(keys, k, i) ==
  IF i > Len(keys) THEN 0
  ELSE IF keys[i] = k THEN i
  ELSE IndexFrom(keys, k, i + 1)

IndexOf(keys, k) == IndexFrom(keys, k, 1)

\* arr without its element at 1-based position i
RemoveAt(arr, i) == [j \in 1..(Len(arr) - 1) |-> IF j < i THEN arr[j] ELSE arr[j + 1]]

\* Array.prototype.splice(start, 1) with start = idx - 1 (JS 0-based), where
\* idx is IndexOf's result: a negative start counts from the end, so
\* splice(-1, 1) removes the last element; an empty array stays empty
Splice1(arr, idx) ==
  IF Len(arr) = 0 THEN arr
  ELSE IF idx = 0 THEN RemoveAt(arr, Len(arr))
  ELSE RemoveAt(arr, idx)

MapUser(arr) == [i \in 1..Len(arr) |-> arr[i].user]
MapId(arr) == [i \in 1..Len(arr) |-> arr[i].id]

\* arr.filter(x => x.user === u).length
CountUser(arr, u) == Cardinality({i \in 1..Len(arr) : arr[i].user = u})

\* ------------------------------------------------------------ store reads
\* Post.findById: the document, or Null; on a malformed id it throws, and
\* the like, unlike, comment and remove-comment handlers answer the throw as
\* they answer Null (500)
FindPost(id) == IF id \in DOMAIN posts THEN posts[id] ELSE Null

\* User.findById
FindUser(u) == IF u \in users THEN [id |-> u] ELSE Null

Resp(op, status) == [op |-> op, status |-> status]

\* --------------------------------------------------------- posts: handlers
\* Each handler is a function of what it read; its result is the response
\* status and the document it saves (save = FALSE: nothing is written).

\* POST api/posts: the validator's required text
CreatePostValid(text) == text # ""

\* new Post({ text, name: user.name, ... }): user.name throws on a null user
CreatePostResult(user, u, text) ==
  IF user = Null THEN [status |-> 500, save |-> FALSE, post |-> Null]
  ELSE [status |-> 200, save |-> TRUE,
        post |-> [user |-> u, text |-> text, likes |-> << >>, comments |-> << >>]]

\* LikeResult without the already-liked check
LikeResultUnguarded(post, u) ==
  IF post = Null THEN [status |-> 500, save |-> FALSE, post |-> post]
  ELSE [status |-> 200, save |-> TRUE,
        post |-> [post EXCEPT !.likes = Unshift(post.likes, [user |-> u])]]

\* PUT api/posts/like/:id
LikeResult(post, u) ==
  IF post = Null THEN [status |-> 500, save |-> FALSE, post |-> post]
  ELSE IF CountUser(post.likes, u) > 0
    THEN [status |-> 400, save |-> FALSE, post |-> post]
  ELSE [status |-> 200, save |-> TRUE,
        post |-> [post EXCEPT !.likes = Unshift(post.likes, [user |-> u])]]

\* UnlikeRemoveIndex looking for the post's owner instead of the requester
UnlikeRemoveIndexOwner(post, u) == IndexOf(MapUser(post.likes), post.user)

\* PUT api/posts/unlike/:id
UnlikeRemoveIndex(post, u) == IndexOf(MapUser(post.likes), u)

UnlikeResult(post, u) ==
  IF post = Null THEN [status |-> 500, save |-> FALSE, post |-> post]
  ELSE IF CountUser(post.likes, u) = 0
    THEN [status |-> 400, save |-> FALSE, post |-> post]
  ELSE [status |-> 200, save |-> TRUE,
        post |-> [post EXCEPT !.likes = Splice1(post.likes, UnlikeRemoveIndex(post, u))]]

\* POST api/posts/comment/:id: the validator's required text
CommentValid(text) == text # ""

CommentResult(user, post, u, text, cid) ==
  IF user = Null \/ post = Null
    THEN [status |-> 500, save |-> FALSE, post |-> post]
  ELSE [status |-> 200, save |-> TRUE,
        post |-> [post EXCEPT !.comments =
                    Unshift(post.comments, [id |-> cid, user |-> u, text |-> text])]]

\* DELETE api/posts/comment/:id/:comment_id
\* post.comments.find(comment => comment.id === comment_id)
FindComment(post, cid) ==
  IF IndexOf(MapId(post.comments), cid) = 0 THEN Null
  ELSE post.comments[IndexOf(MapId(post.comments), cid)]

\* CommentRemoveIndex looking for the post's owner instead of the requester
CommentRemoveIndexOwner(post, u, cid) == IndexOf(MapUser(post.comments), post.user)

CommentRemoveIndex(post, u, cid) == IndexOf(MapUser(post.comments), u)

RemoveCommentResult(post, u, cid) ==
  IF post = Null THEN [status |-> 500, save |-> FALSE, post |-> post]
  ELSE IF FindComment(post, cid) = Null
    THEN [status |-> 500, save |-> FALSE, post |-> post]
  ELSE IF FindComment(post, cid).user # u
    THEN [status |-> 401, save |-> FALSE, post |-> post]
  ELSE [status |-> 200, save |-> TRUE,
        post |-> [post EXCEPT !.comments =
                    Splice1(post.comments, CommentRemoveIndex(post, u, cid))]]

\* DeletePostStatus without the ownership check
DeletePostStatusAnyUser(post, id, u) ==
  IF ~IsObjectId(id) THEN 404
  ELSE IF post = Null THEN 404
  ELSE 200

\* DELETE api/posts/:id: what the handler decides on the post it found;
\* 200 stands for going on to post.remove()
DeletePostStatus(post, id, u) ==
  IF ~IsObjectId(id) THEN 404
  ELSE IF post = Null THEN 404
  ELSE IF post.user # u THEN 401
  ELSE 200

\* GET api/posts/:id
GetPostStatus(post, id) ==
  IF ~IsObjectId(id) THEN 404
  ELSE IF post = Null THEN 404
  ELSE 200

\* post.save() of a document that was found: an update of the stored
\* document of that id with the handler's copy; it inserts nothing when the
\* document has been removed since
SavePost(id, res) ==
  IF res.save /\ id \in DOMAIN posts THEN [posts EXCEPT ![id] = res.post] ELSE posts

\* newPost.save()
InsertPost(id, res) == IF res.save THEN (id :> res.post) @@ posts ELSE posts

\* post.remove()
RemovePost(id) == [i \in DOMAIN posts \ {id} |-> posts[i]]

\* ---------------------------------------------------------------- strings
\* A string is a sequence of characters.  A character is a one-character
\* string, or the name of a character that a string constant cannot hold:
\* VT U+000B, NBSP U+00A0, ZWNBSP U+FEFF, LS U+2028, PS U+2029, USP any
\* other space separator.
\* String.prototype.trim strips WhiteSpace and LineTerminator characters
WhiteSpace == {" ", "\t", "\f", "VT", "NBSP", "ZWNBSP", "USP"}
LineTerminator == {"\n", "\r", "LS", "PS"}

RECURSIVE TrimLeft(_)
TrimLeft(str) ==
  IF str = << >> THEN str
  ELSE IF Head(str) \in WhiteSpace \cup LineTerminator THEN TrimLeft(Tail(str))
  ELSE str

RECURSIVE TrimRight(_)
TrimRight(str) ==
  IF str = << >> THEN str
  ELSE IF str[Len(str)] \in WhiteSpace \cup LineTerminator
    THEN TrimRight(SubSeq(str, 1, Len(str) - 1))
  ELSE str

Trim(str) == TrimRight(TrimLeft(str))

\* String.prototype.split(','): the pieces between the commas (one piece,
\* the string itself, when it holds no comma)
RECURSIVE SplitFrom(_, _)
SplitFrom(str, piece) ==
  IF str = << >> THEN <<piece>>
  ELSE IF Head(str) = "," THEN <<piece>> \o SplitFrom(Tail(str), << >>)
  ELSE SplitFrom(Tail(str), Append(piece, Head(str)))

Split(str) == SplitFrom(str, << >>)

\* skills.split(',').map(skill => skill.trim())
SplitSkills(str) == [i \in 1..Len(Split(str)) |-> Trim(Split(str)[i])]

\* ------------------------------------------------------- profile: handlers
TopFields == {"company", "website", "location", "bio", "status", "githubusername"}
SocialFields == {"youtube", "facebook", "twitter", "instagram", "linkedin"}

\* A request body gives every field a string; "" stands for a field that is
\* missing or empty (both are falsy, and both fail the validator's isEmpty).
\* A stored field is "" when the document does not have it.

\* check('status').not().isEmpty(), check('skills').not().isEmpty()
UpsertValid(body) == body.top["status"] # "" /\ body.skills # << >>

\* the profileFields object: the keys it has and their values
ProfileFields(u, body) ==
  [user |-> u,
   topKeys |-> {f \in TopFields : body.top[f] # ""},
   top |-> body.top,
   hasSkills |-> body.skills # << >>,
   skills |-> SplitSkills(body.skills),
   social |-> body.social]

\* Profile.findOneAndUpdate(..., { $set: profileFields }): every key of
\* profileFields replaces the document's value under that key; social is
\* always a key of profileFields
SetFields(doc, pf) ==
  [doc EXCEPT !.user = pf.user,
              !.top = [f \in TopFields |-> IF f \in pf.topKeys THEN pf.top[f] ELSE @[f]],
              !.skills = IF pf.hasSkills THEN pf.skills ELSE @,
              !.social = pf.social]

\* new Profile(profileFields)
NewProfile(pf) ==
  [user |-> pf.user,
   top |-> [f \in TopFields |-> IF f \in pf.topKeys THEN pf.top[f] ELSE ""],
   skills |-> IF pf.hasSkills THEN pf.skills ELSE << >>,
   social |-> pf.social,
   experience |-> << >>]

\* position of the first Profile document of user u, 0 when there is none
ProfileIndex(u) == IndexOf(MapUser(profiles), u)

\* Profile.findOne({ user })
FindProfile(u) == IF ProfileIndex(u) = 0 THEN Null ELSE profiles[ProfileIndex(u)]

\* a Profile collection that accepts any number of documents per user
ProfileUserAny == FALSE

\* the Profile collection accepts one document per user: an insert of a
\* second one fails with a duplicate-key error
ProfileUserUnique == TRUE

InsertFails(doc) == ProfileUserUnique /\ ProfileIndex(doc.user) # 0

\* the update branch: findOneAndUpdate on the collection as it is now (it
\* answers null, with status 200, when the profile is gone)
UpdateProfile(u, body) ==
  IF ProfileIndex(u) = 0 THEN profiles
  ELSE [profiles EXCEPT ![ProfileIndex(u)] = SetFields(@, ProfileFields(u, body))]

\* the insert branch: profile.save()
InsertStatus(u, body) == IF InsertFails(NewProfile(ProfileFields(u, body))) THEN 500 ELSE 200

InsertProfile(u, body) ==
  IF InsertFails(NewProfile(ProfileFields(u, body))) THEN profiles
  ELSE Append(profiles, NewProfile(ProfileFields(u, body)))

\* PUT api/profile/experience: the validator's three required fields
ExpValid(exp) == exp.title # "" /\ exp.company # "" /\ exp.from # ""

AddExperienceResult(profile, exp, eid) ==
  IF profile = Null THEN [status |-> 500, save |-> FALSE, profile |-> profile]
  ELSE [status |-> 200, save |-> TRUE,
        profile |-> [profile EXCEPT !.experience =
                       Unshift(profile.experience,
                               [id |-> eid, title |-> exp.title,
                                company |-> exp.company, from |-> exp.from])]]

\* DELETE api/profile/experience/:exp_id
ExpRemoveIndex(profile, eid) == IndexOf(MapId(profile.experience), eid)

RemoveExperienceResult(profile, eid) ==
  IF profile = Null THEN [status |-> 500, save |-> FALSE, profile |-> profile]
  ELSE [status |-> 200, save |-> TRUE,
        profile |-> [profile EXCEPT !.experience =
                       Splice1(profile.experience, ExpRemoveIndex(profile, eid))]]

\* profile.save() of a document that was found: an update of the stored
\* document with the handler's copy; it inserts nothing when the document
\* has been removed since
SaveProfile(u, res) ==
  IF res.save /\ ProfileIndex(u) # 0
  THEN [profiles EXCEPT ![ProfileIndex(u)] = res.profile]
  ELSE profiles

\* Profile.findOneAndRemove({ user })
RemoveProfile(u) ==
  IF ProfileIndex(u) = 0 THEN profiles ELSE RemoveAt(profiles, ProfileIndex(u))

\* User.findOneAndRemove({ _id })
RemoveUser(u) == users \ {u}

\* ---------------------------------------------------------------- requests
\* the bodies the profile requests are drawn from: the optional top-level
\* fields in T and the social links in S carry the value v
Body(T, S, v, status, skills) ==
  [top |-> [f \in TopFields |-> IF f = "status" THEN status
                                 ELSE IF f \in T THEN v ELSE ""],
   social |-> [f \in SocialFields |-> IF f \in S THEN v ELSE ""],
   skills |-> skills]

TopShapes == {{}, {"company"}}
SocialShapes == {{}, {"youtube"}}

Bodies ==
  {Body(T, S, "x", "dev", <<"a">>) : T \in TopShapes, S \in SocialShapes}
  \cup {Body({"company"}, {}, "y", "dev", <<" ", "a", ",", "\t", "b", "NBSP", "\n">>)}
  \cup {Body({}, {}, "x", "", <<"a">>), Body({}, {}, "x", "dev", << >>)}

SmallBodies ==
  {Body({}, {}, "x", "dev", <<"a">>),
   Body({"company"}, {"youtube"}, "y", "dev", <<"a", ",", "\t", "b">>),
   Body({}, {}, "x", "", <<"a">>)}

ExpBodies ==
  {[title |-> "t", company |-> "c", from |-> "d"],
   [title |-> "", company |-> "c", from |-> "d"],
   [title |-> "t", company |-> "", from |-> "d"],
   [title |-> "t", company |-> "c", from |-> ""]}

\* A request: what it was sent (op, user, id, cid, text, body), where it
\* stands (pc: the store operation it awaits; "saving": answered, with a
\* write it did not await still to land; "done": answered), what its finds
\* returned (author, doc) and, once answered, its status.
NoDoc == [pending |-> TRUE]
NoBody == [none |-> TRUE]
NoId == 0
NoUser == ""

Request(op, pc, u, id, cid, text, body) ==
  [op |-> op, pc |-> pc, user |-> u, id |-> id, cid |-> cid, text |-> text,
   body |-> body, author |-> NoDoc, doc |-> NoDoc, status |-> 0]

Slots == 1..Len(reqs)

At(r, op, pc) == reqs[r].op = op /\ reqs[r].pc = pc

\* requests of a route that have not been answered
Pending(op) == Cardinality({r \in Slots : reqs[r].op = op /\ reqs[r].pc \notin {"saving", "done"}})

\* app.listen: a request is taken whenever one arrives.  Clients that wait
\* send one only when every earlier one has been answered.
CanStart ==
  /\ Len(reqs) < MaxRequests
  /\ oneAtATime => \A r \in Slots : reqs[r].pc = "saving"

\* a request enters its handler and reaches its first await
Begin(req) == reqs' = Append(reqs, req) /\ last' = last

\* res.status(status): the answer of a request that is through.  The
\* records of answered requests are kept only when clients do not wait.
Finished(r, status) ==
  IF oneAtATime THEN RemoveAt(reqs, r)
  ELSE [reqs EXCEPT ![r].pc = "done", ![r].status = status]

Answer(r, status) ==
  /\ last' = Resp(reqs[r].op, status)
  /\ reqs' = Finished(r, status)

\* the answer of a request that its validator turns down before any await
Reject(req, status) ==
  /\ last' = Resp(req.op, status)
  /\ reqs' = IF oneAtATime THEN reqs
             ELSE Append(reqs, [req EXCEPT !.pc = "done", !.status = status])

\* HandlerPost reading the stored post again at the time of the save
HandlerPostReread(r) == FindPost(reqs[r].id)

\* the document the handler holds after its find and works on until it saves
HandlerPost(r) == reqs[r].doc

\* whether the store checks, on save, that the document is still as read
VersionChecked == FALSE

SaveRejected(id, doc) == VersionChecked /\ FindPost(id) # doc

\* await post.save() of a handler's result, and the answer after it
SaveStep(r, res) ==
  IF res.save /\ SaveRejected(reqs[r].id, reqs[r].doc)
  THEN posts' = posts /\ Answer(r, 500)
  ELSE posts' = SavePost(reqs[r].id, res) /\ Answer(r, res.status)

\* -------------------------------------------------------- posts: the steps
Init ==
  /\ users = Users
  /\ posts = << >>
  /\ nextPostId = 1
  /\ nextCommentId = 1
  /\ profiles = << >>
  /\ nextExpId = 1
  /\ reqs = << >>
  /\ last = Resp("none", 0)
  /\ oneAtATime = TRUE

\* POST api/posts: the validator answers before any await
CreatePostStart(u, text) ==
  /\ CanStart
  /\ nextPostId + Pending("createPost") <= MaxPosts
  /\ IF CreatePostValid(text)
     THEN Begin(Request("createPost", "findUser", u, NoId, NoId, text, NoBody))
     ELSE Reject(Request("createPost", "findUser", u, NoId, NoId, text, NoBody), 400)
  /\ UNCHANGED <<users, posts, nextPostId, nextCommentId, profiles, nextExpId, oneAtATime>>

\* await User.findById, in the create-post and the comment handlers
UserFind(r) ==
  /\ reqs[r].pc = "findUser"
  /\ reqs' = [reqs EXCEPT ![r].author = FindUser(reqs[r].user),
                          ![r].pc = IF reqs[r].op = "createPost" THEN "save" ELSE "find"]
  /\ UNCHANGED <<users, posts, nextPostId, nextCommentId, profiles, nextExpId, last, oneAtATime>>

\* await newPost.save()
CreatePostSave(r) ==
  /\ At(r, "createPost", "save")
  /\ LET res == CreatePostResult(reqs[r].author, reqs[r].user, reqs[r].text) IN
       /\ posts' = InsertPost(nextPostId, res)
       /\ nextPostId' = IF res.save THEN nextPostId + 1 ELSE nextPostId
       /\ Answer(r, res.status)
  /\ UNCHANGED <<users, nextCommentId, profiles, nextExpId, oneAtATime>>

\* GET api/posts/:id
GetPostStart(id) ==
  /\ CanStart
  /\ Begin(Request("getPost", "find", NoUser, id, NoId, "", NoBody))
  /\ UNCHANGED <<users, posts, nextPostId, nextCommentId, profiles, nextExpId, oneAtATime>>

\* await Post.findById, and the answer
GetPostFind(r) ==
  /\ At(r, "getPost", "find")
  /\ Answer(r, GetPostStatus(FindPost(reqs[r].id), reqs[r].id))
  /\ UNCHANGED <<users, posts, nextPostId, nextCommentId, profiles, nextExpId, oneAtATime>>

\* DELETE api/posts/:id
DeletePostStart(u, id) ==
  /\ CanStart
  /\ Begin(Request("deletePost", "find", u, id, NoId, "", NoBody))
  /\ UNCHANGED <<users, posts, nextPostId, nextCommentId, profiles, nextExpId, oneAtATime>>

\* await Post.findById, then the two checks: an answer, or on to the removal
DeletePostFind(r) ==
  /\ At(r, "deletePost", "find")
  /\ LET status == DeletePostStatus(FindPost(reqs[r].id), reqs[r].id, reqs[r].user) IN
       IF status = 200
       THEN /\ reqs' = [reqs EXCEPT ![r].pc = "remove", ![r].doc = FindPost(reqs[r].id)]
            /\ last' = last
       ELSE Answer(r, status)
  /\ UNCHANGED <<users, posts, nextPostId, nextCommentId, profiles, nextExpId, oneAtATime>>

\* await post.remove(), and the answer
DeletePostRemove(r) ==
  /\ At(r, "deletePost", "remove")
  /\ posts' = RemovePost(reqs[r].id)
  /\ Answer(r, 200)
  /\ UNCHANGED <<users, nextPostId, nextCommentId, profiles, nextExpId, oneAtATime>>

\* PUT api/posts/like/:id
LikeStart(u, id) ==
  /\ CanStart
  /\ Begin(Request("like", "find", u, id, NoId, "", NoBody))
  /\ UNCHANGED <<users, posts, nextPostId, nextCommentId, profiles, nextExpId, oneAtATime>>

\* PUT api/posts/unlike/:id
UnlikeStart(u, id) ==
  /\ CanStart
  /\ Begin(Request("unlike", "find", u, id, NoId, "", NoBody))
  /\ UNCHANGED <<users, posts, nextPostId, nextCommentId, profiles, nextExpId, oneAtATime>>

\* POST api/posts/comment/:id: the validator answers before any await
CommentStart(u, id, text) ==
  /\ CanStart
  /\ nextCommentId + Pending("comment") <= MaxComments
  /\ IF CommentValid(text)
     THEN Begin(Request("comment", "findUser", u, id, NoId, text, NoBody))
     ELSE Reject(Request("comment", "findUser", u, id, NoId, text, NoBody), 400)
  /\ UNCHANGED <<users, posts, nextPostId, nextCommentId, profiles, nextExpId, oneAtATime>>

\* DELETE api/posts/comment/:id/:comment_id
RemoveCommentStart(u, id, cid) ==
  /\ CanStart
  /\ Begin(Request("removeComment", "find", u, id, cid, "", NoBody))
  /\ UNCHANGED <<users, posts, nextPostId, nextCommentId, profiles, nextExpId, oneAtATime>>

\* await Post.findById, in the like, unlike, comment and remove-comment
\* handlers
PostFind(r) ==
  /\ reqs[r].op \in {"like", "unlike", "comment", "removeComment"}
  /\ reqs[r].pc = "find"
  /\ reqs' = [reqs EXCEPT ![r].pc = "save",
                          ![r].doc = IF IsObjectId(reqs[r].id) THEN FindPost(reqs[r].id)
                                     ELSE Null]
  /\ UNCHANGED <<users, posts, nextPostId, nextCommentId, profiles, nextExpId, last, oneAtATime>>

\* the already-liked check, unshift, await post.save(), and the answer
LikeSave(r) ==
  /\ At(r, "like", "save")
  /\ SaveStep(r, LikeResult(HandlerPost(r), reqs[r].user))
  /\ UNCHANGED <<users, nextPostId, nextCommentId, profiles, nextExpId, oneAtATime>>

\* the not-liked check, splice, await post.save(), and the answer
UnlikeSave(r) ==
  /\ At(r, "unlike", "save")
  /\ SaveStep(r, UnlikeResult(HandlerPost(r), reqs[r].user))
  /\ UNCHANGED <<users, nextPostId, nextCommentId, profiles, nextExpId, oneAtATime>>

\* unshift of the new comment, await post.save(), and the answer
CommentSave(r) ==
  /\ At(r, "comment", "save")
  /\ LET res == CommentResult(reqs[r].author, HandlerPost(r), reqs[r].user,
                              reqs[r].text, nextCommentId) IN
       /\ SaveStep(r, res)
       /\ nextCommentId' = IF res.save THEN nextCommentId + 1 ELSE nextCommentId
  /\ UNCHANGED <<users, nextPostId, profiles, nextExpId, oneAtATime>>

\* the two checks, splice, await post.save(), and the answer
RemoveCommentSave(r) ==
  /\ At(r, "removeComment", "save")
  /\ SaveStep(r, RemoveCommentResult(HandlerPost(r), reqs[r].user, reqs[r].cid))
  /\ UNCHANGED <<users, nextPostId, nextCommentId, profiles, nextExpId, oneAtATime>>

\* ------------------------------------------------------ profile: the steps
\* POST api/profile: the validator answers before any await
UpsertStart(u, body) ==
  /\ CanStart
  /\ oneAtATime => (Len(profiles) < MaxProfiles \/ FindProfile(u) # Null \/ ~UpsertValid(body))
  /\ IF UpsertValid(body)
     THEN Begin(Request("upsert", "find", u, NoId, NoId, "", body))
     ELSE Reject(Request("upsert", "find", u, NoId, NoId, "", body), 400)
  /\ UNCHANGED <<users, posts, nextPostId, nextCommentId, profiles, nextExpId, oneAtATime>>

\* await Profile.findOne, in the upsert and the two experience handlers
ProfileFind(r) ==
  /\ reqs[r].op \in {"upsert", "addExperience", "removeExperience"}
  /\ reqs[r].pc = "find"
  /\ reqs' = [reqs EXCEPT ![r].pc = "save", ![r].doc = FindProfile(reqs[r].user)]
  /\ UNCHANGED <<users, posts, nextPostId, nextCommentId, profiles, nextExpId, last, oneAtATime>>

\* await Profile.findOneAndUpdate, when the find returned a profile
UpsertUpdate(r) ==
  /\ At(r, "upsert", "save")
  /\ reqs[r].doc # Null
  /\ profiles' = UpdateProfile(reqs[r].user, reqs[r].body)
  /\ Answer(r, 200)
  /\ UNCHANGED <<users, posts, nextPostId, nextCommentId, nextExpId, oneAtATime>>

\* await profile.save() of a new Profile, when the find returned none
UpsertInsert(r) ==
  /\ At(r, "upsert", "save")
  /\ reqs[r].doc = Null
  /\ profiles' = InsertProfile(reqs[r].user, reqs[r].body)
  /\ Answer(r, InsertStatus(reqs[r].user, reqs[r].body))
  /\ UNCHANGED <<users, posts, nextPostId, nextCommentId, nextExpId, oneAtATime>>

\* DELETE api/profile (the removal of the user's posts is a TODO)
DeleteAccountStart(u) ==
  /\ CanStart
  /\ Begin(Request("deleteAccount", "removeProfile", u, NoId, NoId, "", NoBody))
  /\ UNCHANGED <<users, posts, nextPostId, nextCommentId, profiles, nextExpId, oneAtATime>>

\* await Profile.findOneAndRemove
DeleteAccountProfile(r) ==
  /\ At(r, "deleteAccount", "removeProfile")
  /\ profiles' = RemoveProfile(reqs[r].user)
  /\ reqs' = [reqs EXCEPT ![r].pc = "removeUser"]
  /\ UNCHANGED <<users, posts, nextPostId, nextCommentId, nextExpId, last, oneAtATime>>

\* await User.findOneAndRemove, and the answer
DeleteAccountUser(r) ==
  /\ At(r, "deleteAccount", "removeUser")
  /\ users' = RemoveUser(reqs[r].user)
  /\ Answer(r, 200)
  /\ UNCHANGED <<posts, nextPostId, nextCommentId, profiles, nextExpId, oneAtATime>>

\* PUT api/profile/experience: the validator answers before any await
AddExperienceStart(u, exp) ==
  /\ CanStart
  /\ nextExpId + Pending("addExperience") <= MaxExps
  /\ IF ExpValid(exp)
     THEN Begin(Request("addExperience", "find", u, NoId, NoId, "", exp))
     ELSE Reject(Request("addExperience", "find", u, NoId, NoId, "", exp), 400)
  /\ UNCHANGED <<users, posts, nextPostId, nextCommentId, profiles, nextExpId, oneAtATime>>

\* unshift of the new entry, await profile.save(), and the answer
AddExperienceSave(r) ==
  /\ At(r, "addExperience", "save")
  /\ LET res == AddExperienceResult(reqs[r].doc, reqs[r].body, nextExpId) IN
       /\ profiles' = SaveProfile(reqs[r].user, res)
       /\ nextExpId' = IF res.save THEN nextExpId + 1 ELSE nextExpId
       /\ Answer(r, res.status)
  /\ UNCHANGED <<users, posts, nextPostId, nextCommentId, oneAtATime>>

\* DELETE api/profile/experience/:exp_id
RemoveExperienceStart(u, eid) ==
  /\ CanStart
  /\ Begin(Request("removeExperience", "find", u, eid, NoId, "", NoBody))
  /\ UNCHANGED <<users, posts, nextPostId, nextCommentId, profiles, nextExpId, oneAtATime>>

\* splice, profile.save() called and not awaited, and the answer: the
\* handler is through while the write of its document is still on its way
RemoveExperienceAnswer(r) ==
  /\ At(r, "removeExperience", "save")
  /\ LET res == RemoveExperienceResult(reqs[r].doc, reqs[r].id) IN
       IF res.save
       THEN /\ reqs' = [reqs EXCEPT ![r].pc = "saving", ![r].doc = res.profile,
                                    ![r].status = res.status]
            /\ last' = Resp("removeExperience", res.status)
       ELSE Answer(r, res.status)
  /\ UNCHANGED <<users, posts, nextPostId, nextCommentId, profiles, nextExpId, oneAtATime>>

\* the write of the un-awaited profile.save() lands
RemoveExperienceLand(r) ==
  /\ At(r, "removeExperience", "saving")
  /\ profiles' = SaveProfile(reqs[r].user, [save |-> TRUE, profile |-> reqs[r].doc])
  /\ reqs' = Finished(r, reqs[r].status)
  /\ UNCHANGED <<users, posts, nextPostId, nextCommentId, nextExpId, last, oneAtATime>>

\* ---------------------------------------------------------- specifications
\* posts and their likes, one request at a time
Next ==
  \/ \E u \in Users, t \in Texts : CreatePostStart(u, t)
  \/ \E r \in Slots : UserFind(r)
  \/ \E r \in Slots : CreatePostSave(r)
  \/ \E u \in Users, id \in PostIds \cup {Malformed} : DeletePostStart(u, id)
  \/ \E r \in Slots : DeletePostFind(r)
  \/ \E r \in Slots : DeletePostRemove(r)
  \/ \E u \in Users, id \in PostIds \cup {Malformed} : LikeStart(u, id)
  \/ \E u \in Users, id \in PostIds \cup {Malformed} : UnlikeStart(u, id)
  \/ \E r \in Slots : PostFind(r)
  \/ \E r \in Slots : LikeSave(r)
  \/ \E r \in Slots : UnlikeSave(r)

Spec == Init /\ [][Next]_vars

\* posts and their comments, one request at a time
NextComments ==
  \/ \E u \in Users, t \in Texts : CreatePostStart(u, t)
  \/ \E r \in Slots : UserFind(r)
  \/ \E r \in Slots : CreatePostSave(r)
  \/ \E u \in Users, id \in PostIds \cup {Malformed}, t \in Texts : CommentStart(u, id, t)
  \/ \E u \in Users, id \in PostIds \cup {Malformed}, cid \in CommentIds :
       RemoveCommentStart(u, id, cid)
  \/ \E r \in Slots : PostFind(r)
  \/ \E r \in Slots : CommentSave(r)
  \/ \E r \in Slots : RemoveCommentSave(r)

SpecComments == Init /\ [][NextComments]_vars

\* the profile and its experience list, one request at a time
NextProfile ==
  \/ \E u \in Users, body \in Bodies : UpsertStart(u, body)
  \/ \E u \in Users, exp \in ExpBodies : AddExperienceStart(u, exp)
  \/ \E u \in Users, eid \in 1..MaxExps : RemoveExperienceStart(u, eid)
  \/ \E r \in Slots : ProfileFind(r)
  \/ \E r \in Slots : UpsertUpdate(r)
  \/ \E r \in Slots : UpsertInsert(r)
  \/ \E r \in Slots : AddExperienceSave(r)
  \/ \E r \in Slots : RemoveExperienceAnswer(r)
  \/ \E r \in Slots : RemoveExperienceLand(r)

SpecProfile == Init /\ [][NextProfile]_vars

\* accounts: what a user owns, and the deletion of the account, one request
\* at a time
NextAccount ==
  \/ \E u \in Users, body \in SmallBodies : UpsertStart(u, body)
  \/ \E u \in Users, t \in Texts : CreatePostStart(u, t)
  \/ \E u \in Users : DeleteAccountStart(u)
  \/ \E r \in Slots : ProfileFind(r)
  \/ \E r \in Slots : UpsertUpdate(r)
  \/ \E r \in Slots : UpsertInsert(r)
  \/ \E r \in Slots : UserFind(r)
  \/ \E r \in Slots : CreatePostSave(r)
  \/ \E r \in Slots : DeleteAccountProfile(r)
  \/ \E r \in Slots : DeleteAccountUser(r)

SpecAccount == Init /\ [][NextAccount]_vars

\* likes a post can hold when the requests of SpecConc and SpecDelete arrive
InitLikes == {<< >>, <<[user |-> "B"], [user |-> "A"]>>}

\* a post of A is in the store and clients do not wait
InitConc ==
  /\ users = Users
  /\ \E likes \in InitLikes :
       /\ posts = (1 :> [user |-> "A", text |-> "hello", likes |-> likes,
                         comments |-> << >>])
       /\ last = IF likes = << >> THEN Resp("createPost", 200) ELSE Resp("like", 200)
  /\ nextPostId = 2
  /\ nextCommentId = 1
  /\ profiles = << >>
  /\ nextExpId = 1
  /\ reqs = << >>
  /\ oneAtATime = FALSE

\* likes, unlikes and comments on a post, not waiting for each other
NextConc ==
  \/ \E u \in Users, id \in PostIds : LikeStart(u, id)
  \/ \E u \in Users, id \in PostIds : UnlikeStart(u, id)
  \/ \E u \in Users, id \in PostIds, t \in Texts : CommentStart(u, id, t)
  \/ \E r \in Slots : UserFind(r)
  \/ \E r \in Slots : PostFind(r)
  \/ \E r \in Slots : LikeSave(r)
  \/ \E r \in Slots : UnlikeSave(r)
  \/ \E r \in Slots : CommentSave(r)

SpecConc == InitConc /\ [][NextConc]_vars

\* comments a post can hold when the requests of SpecRemove arrive: the
\* comments of an earlier request of A, or of two
InitComments ==
  {<<[id |-> 1, user |-> "A", text |-> "hello"]>>,
   <<[id |-> 2, user |-> "A", text |-> "hello"], [id |-> 1, user |-> "A", text |-> "hello"]>>}

\* a commented post of A is in the store and clients do not wait
InitRemove ==
  /\ users = Users
  /\ \E comments \in InitComments :
       /\ posts = (1 :> [user |-> "A", text |-> "hello", likes |-> << >>,
                         comments |-> comments])
       /\ nextCommentId = Len(comments) + 1
  /\ nextPostId = 2
  /\ profiles = << >>
  /\ nextExpId = 1
  /\ reqs = << >>
  /\ last = Resp("comment", 200)
  /\ oneAtATime = FALSE

\* comments and their removal, not waiting for each other
NextRemove ==
  \/ \E u \in Users, id \in PostIds, t \in Texts : CommentStart(u, id, t)
  \/ \E u \in Users, id \in PostIds, cid \in CommentIds : RemoveCommentStart(u, id, cid)
  \/ \E r \in Slots : UserFind(r)
  \/ \E r \in Slots : PostFind(r)
  \/ \E r \in Slots : CommentSave(r)
  \/ \E r \in Slots : RemoveCommentSave(r)

SpecRemove == InitRemove /\ [][NextRemove]_vars

\* the removal of a post among its readers and writers, not waiting
NextDelete ==
  \/ \E u \in Users, id \in PostIds \cup {Malformed} : DeletePostStart(u, id)
  \/ \E id \in PostIds \cup {Malformed} : GetPostStart(id)
  \/ \E u \in Users, id \in PostIds : LikeStart(u, id)
  \/ \E r \in Slots : DeletePostFind(r)
  \/ \E r \in Slots : DeletePostRemove(r)
  \/ \E r \in Slots : GetPostFind(r)
  \/ \E r \in Slots : PostFind(r)
  \/ \E r \in Slots : LikeSave(r)

SpecDelete == InitConc /\ [][NextDelete]_vars

\* an empty store and clients that do not wait
InitUpsert ==
  /\ users = Users
  /\ posts = << >>
  /\ nextPostId = 1
  /\ nextCommentId = 1
  /\ profiles = << >>
  /\ nextExpId = 1
  /\ reqs = << >>
  /\ last = Resp("none", 0)
  /\ oneAtATime = FALSE

\* profile upserts, new posts and account deletions, not waiting for each
\* other
NextUpsert ==
  \/ \E u \in Users, body \in SmallBodies : UpsertStart(u, body)
  \/ \E u \in Users, t \in Texts : CreatePostStart(u, t)
  \/ \E u \in Users : DeleteAccountStart(u)
  \/ \E r \in Slots : ProfileFind(r)
  \/ \E r \in Slots : UpsertUpdate(r)
  \/ \E r \in Slots : UpsertInsert(r)
  \/ \E r \in Slots : UserFind(r)
  \/ \E r \in Slots : CreatePostSave(r)
  \/ \E r \in Slots : DeleteAccountProfile(r)
  \/ \E r \in Slots : DeleteAccountUser(r)

SpecUpsert == InitUpsert /\ [][NextUpsert]_vars

\* experience lists a profile can hold when the requests of SpecExperience
\* arrive: none yet, or the entry of an earlier request
InitExperience ==
  {<< >>, <<[id |-> 1, title |-> "t", company |-> "c", from |-> "d"]>>}

\* a profile of A is in the store and clients do not wait
InitExp ==
  /\ users = Users
  /\ posts = << >>
  /\ nextPostId = 1
  /\ nextCommentId = 1
  /\ \E experience \in InitExperience :
       /\ profiles = <<[NewProfile(ProfileFields("A", Body({}, {}, "x", "dev", <<"a">>)))
                          EXCEPT !.experience = experience]>>
       /\ nextExpId = Len(experience) + 1
       /\ last = IF experience = << >> THEN Resp("upsert", 200)
                 ELSE Resp("addExperience", 200)
  /\ reqs = << >>
  /\ oneAtATime = FALSE

\* additions to and removals from experience lists, not waiting for each
\* other
NextExp ==
  \/ \E u \in Users, exp \in ExpBodies : AddExperienceStart(u, exp)
  \/ \E u \in Users, eid \in 1..MaxExps : RemoveExperienceStart(u, eid)
  \/ \E r \in Slots : ProfileFind(r)
  \/ \E r \in Slots : AddExperienceSave(r)
  \/ \E r \in Slots : RemoveExperienceAnswer(r)
  \/ \E r \in Slots : RemoveExperienceLand(r)

SpecExperience == InitExp /\ [][NextExp]_vars

\* ------------------------------------------------------------ properties
\* the entries of arr that satisfy neither "is user u's" nor "has id k"
RECURSIVE Keep(_, _, _)
Keep(arr, field, k) ==
  IF arr = << >> THEN << >>
  ELSE IF Head(arr)[field] = k THEN Keep(Tail(arr), field, k)
  ELSE <<Head(arr)>> \o Keep(Tail(arr), field, k)

Likes(id) == posts[id].likes
Comments(id) == posts[id].comments
SeqSet(arr) == {arr[i] : i \in 1..Len(arr)}

\* C2: with requests handled one at a time, a like by a user who has not
\* liked the post answers 200 and puts exactly one entry of that user at the
\* front of the likes, the rest as it was; a like by a user who has liked it
\* answers 400 and changes nothing; no likes list ever holds two entries of
\* one user.
C2_LikeOnce ==
  /\ [](\A id \in DOMAIN posts, u \in Users : CountUser(Likes(id), u) <= 1)
  /\ [][\A r \in Slots :
          (LikeSave(r) /\ reqs[r].id \in DOMAIN posts) =>
            LET u == reqs[r].user
                id == reqs[r].id
            IN IF \E i \in 1..Len(Likes(id)) : Likes(id)[i].user = u
               THEN last' = Resp("like", 400) /\ posts' = posts
               ELSE /\ last' = Resp("like", 200)
                    /\ posts' = [posts EXCEPT ![id].likes = <<[user |-> u]>> \o Likes(id)]]_vars

\* C2 witness: a second like of the same user has just been rejected
C2_Witness ==
  /\ last = Resp("like", 400)
  /\ \E id \in DOMAIN posts : Len(Likes(id)) >= 2

\* C3: a delete that finds no post of its id answers 404 whoever asks and
\* changes nothing; one that finds another user's post answers 401 and
\* changes nothing; the owner's delete goes on to remove that post and no
\* other, after which a get answers 404; whenever a post leaves the store
\* the step is the removal of a delete by its owner; and a removed post
\* never comes back.
C3_DeletePost ==
  /\ [][\A r \in Slots :
          DeletePostFind(r) =>
            LET u == reqs[r].user
                id == reqs[r].id
            IN IF id \notin DOMAIN posts
               THEN last' = Resp("deletePost", 404) /\ posts' = posts
               ELSE IF posts[id].user # u
               THEN last' = Resp("deletePost", 401) /\ posts' = posts
               ELSE reqs'[r].pc = "remove" /\ posts' = posts]_vars
  /\ [][\A r \in Slots :
          DeletePostRemove(r) =>
            LET id == reqs[r].id
            IN /\ reqs[r].doc.user = reqs[r].user
               /\ last' = Resp("deletePost", 200)
               /\ DOMAIN posts' = DOMAIN posts \ {id}
               /\ \A j \in DOMAIN posts' : posts'[j] = posts[j]
               /\ GetPostStatus(IF id \in DOMAIN posts' THEN posts'[id] ELSE Null, id) = 404]_vars
  /\ [][\A id \in DOMAIN posts :
          id \notin DOMAIN posts' =>
            \E r \in Slots : /\ DeletePostRemove(r)
                             /\ reqs[r].id = id
                             /\ reqs[r].user = posts[id].user]_vars
  /\ [][\A id \in PostIds :
          (id < nextPostId /\ id \notin DOMAIN posts) => id \notin DOMAIN posts']_vars
  /\ [][\A r \in Slots :
          (GetPostFind(r) /\ reqs[r].id \notin DOMAIN posts) =>
            last' = Resp("getPost", 404)]_vars

\* C3 witness: the owner's delete was answered 200, and a like that had read
\* the post before the removal saved and was answered after it; the post is
\* gone
C3_Witness ==
  /\ posts = << >>
  /\ last = Resp("like", 200)
  /\ \E r \in Slots :
       /\ reqs[r].op = "deletePost" /\ reqs[r].pc = "done" /\ reqs[r].status = 200
       /\ reqs[r].user = "A"

\* C7 as it is written: whatever other requests do meanwhile, an unlike by a
\* user whose like was on the post when the request read it answers 200 and
\* leaves the stored likes without that user's entry, the entries of all
\* other users present and in their order; an unlike by a user whose like
\* was not on it answers 400 and changes nothing.
C7_UnlikeAlways ==
  [][\A r \in Slots :
       (UnlikeSave(r) /\ reqs[r].id \in DOMAIN posts) =>
         LET u == reqs[r].user
             id == reqs[r].id
         IN IF CountUser(reqs[r].doc.likes, u) > 0
            THEN /\ last' = Resp("unlike", 200)
                 /\ posts' = [posts EXCEPT ![id].likes = Keep(Likes(id), "user", u)]
            ELSE last' = Resp("unlike", 400) /\ posts' = posts]_vars

\* C7: when the stored post is still as the unlike request read it (as it
\* is when requests are handled one at a time), an unlike by a user whose
\* like the post holds answers 200 and takes exactly that user's entry out
\* of the likes, the entries of all other users staying present and in
\* their order; an unlike by a user whose like it does not hold answers 400
\* and changes nothing.
C7_Unlike ==
  [][\A r \in Slots :
       (UnlikeSave(r) /\ reqs[r].id \in DOMAIN posts /\ posts[reqs[r].id] = reqs[r].doc) =>
         LET u == reqs[r].user
             id == reqs[r].id
         IN IF CountUser(Likes(id), u) > 0
            THEN /\ last' = Resp("unlike", 200)
                 /\ posts' = [posts EXCEPT ![id].likes = Keep(Likes(id), "user", u)]
                 /\ Len(posts'[id].likes) = Len(Likes(id)) - 1
            ELSE last' = Resp("unlike", 400) /\ posts' = posts]_vars

\* C7 witness: an unlike was answered 200, the post holds no like of its
\* user and still holds the like of another
C7_Witness ==
  \E r \in Slots :
    /\ reqs[r].op = "unlike" /\ reqs[r].pc = "done" /\ reqs[r].status = 200
    /\ reqs[r].id \in DOMAIN posts
    /\ CountUser(Likes(reqs[r].id), reqs[r].user) = 0
    /\ Len(Likes(reqs[r].id)) >= 1

\* C1: removing a comment by its id, asked by its author who has two or
\* more comments on the post, removes the comment of that id and leaves the
\* others in their order.
C1_RemoveById ==
  [][\A r \in Slots :
       ( /\ RemoveCommentSave(r)
         /\ reqs[r].id \in DOMAIN posts
         /\ CountUser(Comments(reqs[r].id), reqs[r].user) >= 2
         /\ \E c \in SeqSet(Comments(reqs[r].id)) :
              c.id = reqs[r].cid /\ c.user = reqs[r].user )
       => posts' = [posts EXCEPT ![reqs[r].id].comments =
                      Keep(Comments(reqs[r].id), "id", reqs[r].cid)]]_vars

\* C10: with requests handled one at a time, a remove-comment request naming
\* another user's comment answers 401 and changes nothing; one naming the
\* requester's own comment answers 200, removes exactly one comment, and
\* that comment is the requester's.
C10_RemovesOwn ==
  [][\A r \in Slots :
       ( /\ RemoveCommentSave(r)
         /\ reqs[r].id \in DOMAIN posts
         /\ reqs[r].cid \in SeqSet(MapId(Comments(reqs[r].id))) ) =>
         LET u == reqs[r].user
             id == reqs[r].id
             cid == reqs[r].cid
         IN IF ~(\E c \in SeqSet(Comments(id)) : c.id = cid /\ c.user = u)
            THEN last' = Resp("removeComment", 401) /\ posts' = posts
            ELSE /\ last' = Resp("removeComment", 200)
                 /\ SeqSet(posts'[id].comments) \subseteq SeqSet(Comments(id))
                 /\ Len(posts'[id].comments) = Len(Comments(id)) - 1
                 /\ \A c \in SeqSet(Comments(id)) \ SeqSet(posts'[id].comments) : c.user = u
                 /\ \A j \in DOMAIN posts \ {id} : posts'[j] = posts[j]]_vars

\* C10 witness: a removal has succeeded and has left a comment on the post
C10_Witness ==
  /\ last = Resp("removeComment", 200)
  /\ \E id \in DOMAIN posts : Len(Comments(id)) >= 1

\* C4: the store never holds two Profile documents of one user.
C4_OneProfilePerUser ==
  \A u \in Users : Cardinality({i \in 1..Len(profiles) : profiles[i].user = u}) <= 1

\* C4 witness: two upserts of one user both found no profile and both went
\* on to insert; one was answered 200 and the other 500
C4_Witness ==
  \E r1, r2 \in Slots :
    /\ r1 # r2
    /\ reqs[r1].op = "upsert" /\ reqs[r2].op = "upsert"
    /\ reqs[r1].user = reqs[r2].user
    /\ reqs[r1].doc = Null /\ reqs[r2].doc = Null
    /\ reqs[r1].pc = "done" /\ reqs[r2].pc = "done"
    /\ reqs[r1].status = 200 /\ reqs[r2].status = 500
    /\ Len(profiles) = 1

\* C5: an upsert that updates an existing profile leaves every field the
\* request omits as it was, the top-level fields and the social links alike.
C5_OmittedKept ==
  [][\A r \in Slots, u \in Users, body \in Bodies :
       ( /\ u = reqs[r].user
         /\ body = reqs[r].body
         /\ UpsertUpdate(r)
         /\ FindProfile(u) # Null ) =>
         /\ \A f \in TopFields :
              body.top[f] = "" => FindProfile(u)'.top[f] = FindProfile(u).top[f]
         /\ \A f \in SocialFields :
              body.social[f] = "" => FindProfile(u)'.social[f] = FindProfile(u).social[f]]_vars

\* the part of C5 about the top-level fields alone: an omitted one is kept
\* and a present one is overwritten
C5_TopLevelKept ==
  [][\A r \in Slots, u \in Users, body \in Bodies :
       ( /\ u = reqs[r].user
         /\ body = reqs[r].body
         /\ UpsertUpdate(r)
         /\ FindProfile(u) # Null ) =>
         \A f \in TopFields :
           FindProfile(u)'.top[f] =
             IF body.top[f] = "" THEN FindProfile(u).top[f] ELSE body.top[f]]_vars

\* C6: the write of a remove-experience request leaves the requester's
\* experience list without the entry of the id it names and otherwise as it
\* was: one entry less when the id matches one, unchanged when it matches
\* none.
C6_RemoveExperience ==
  [][\A r \in Slots, u \in Users :
       (u = reqs[r].user /\ RemoveExperienceLand(r) /\ FindProfile(u) # Null) =>
         FindProfile(u)'.experience = Keep(FindProfile(u).experience, "id", reqs[r].id)]_vars

\* C8: once a delete-account request of a user is answered, the store holds
\* no profile of that user, no user record of it and no post it owns.
C8_AccountGone ==
  [][\A r \in Slots :
       DeleteAccountUser(r) =>
         LET u == reqs[r].user
         IN /\ last' = Resp("deleteAccount", 200)
            /\ \A i \in 1..Len(profiles') : profiles'[i].user # u
            /\ u \notin users'
            /\ \A id \in DOMAIN posts' : posts'[id].user # u]_vars

\* C9: a like, unlike or comment request that answers 200 stores the post
\* as the request read it with the request's own change applied, whatever
\* other requests stored between its read and its write.
C9_ReadThenWrite ==
  [][\A r \in Slots :
       LET u == reqs[r].user
           id == reqs[r].id
           read == reqs[r].doc
       IN /\ (LikeSave(r) /\ reqs'[r].status = 200 /\ id \in DOMAIN posts) =>
               posts'[id] = [read EXCEPT !.likes = <<[user |-> u]>> \o read.likes]
          /\ (UnlikeSave(r) /\ reqs'[r].status = 200 /\ id \in DOMAIN posts) =>
               posts'[id] = [read EXCEPT !.likes = Keep(read.likes, "user", u)]
          /\ (CommentSave(r) /\ reqs'[r].status = 200 /\ id \in DOMAIN posts) =>
               /\ posts'[id].likes = read.likes
               /\ Tail(posts'[id].comments) = read.comments
               /\ Head(posts'[id].comments).user = u]_vars

\* C9 witness: two likes of different users on one post were both answered
\* 200 and the post holds one like
C9_Witness ==
  \E r1, r2 \in Slots :
    /\ reqs[r1].op = "like" /\ reqs[r2].op = "like"
    /\ reqs[r1].user # reqs[r2].user
    /\ reqs[r1].id = reqs[r2].id
    /\ reqs[r1].pc = "done" /\ reqs[r2].pc = "done"
    /\ reqs[r1].status = 200 /\ reqs[r2].status = 200
    /\ Len(posts[reqs[r1].id].likes) = 1

====
